---- MODULE Spec2Model ----
(***************************************************************************)
(* The synchronisation and query pipeline of the oncology retrieval        *)
(* script (src/oncology_work/main.py, src/oncology_work/final.py): a run   *)
(* of the script ingests articles into the MySQL table `journals`,         *)
(* rebuilds the Milvus collection `journal_titles` from it and answers one *)
(* query.  Every run is a process; a step is one statement that reads or   *)
(* writes MySQL or Milvus, together with the local computation around it   *)
(* (opening the connection before it, the finally clause after it).        *)
(***************************************************************************)
EXTENDS Bags, FiniteSets, Integers, Sequences, TLC

\* ------------------------------------------------------------- bounds
NumRuns == 2        \* runs of the script (processes)
MaxRows == 2        \* ingestion stops once the table holds an id this large
NumTitles == 2      \* distinct article texts (a title with its abstract)

\* top_k=5, the default of search_articles
DefaultTopK == 5

Procs == 1..NumRuns
Titles == 1..NumTitles
Queries == Titles
TopKs == {1, DefaultTopK}

\* search_articles(query, collection) as the script calls it: its one
\* query text, and top_k left at its default
ScriptCall == [query |-> 1, top_k |-> DefaultTopK]

\* the calls of search_articles(query, collection, top_k) considered
Calls == [query : Queries, top_k : TopKs]

None == 0           \* Python's None
NoSnapshot == {-1}  \* no SELECT id, title has returned

VARIABLES
    journals,   \* MySQL table journals, rows in insertion order: [id, title]
    coll,       \* Milvus collection journal_titles: [exists, ents, indexed, loaded]
    pc,         \* pc[p]: the statement run p executes next
    exc,        \* exc[p]: the uncaught exception that ended run p ("" if none)
    loc,        \* loc[p]: the locals of the function run p is in (see NoLocals)
    hist,       \* hist[p]: what run p has done so far (see NoHistory)
    last,       \* the rebuild that last loaded the collection (see NoRebuild)
    sched,      \* how the runs of the script are launched
    call,       \* the arguments search_articles is called with
    deleted     \* another client of the database has deleted a row

env == <<sched, call, deleted>>
vars == <<journals, coll, pc, exc, loc, hist, last, env>>

\* ------------------------------------------------------------ helpers
Max(S) == CHOOSE x \in S : \A y \in S : y <= x

Range(s) == {s[i] : i \in DOMAIN s}

\* s without its i-th element
Without(s, i) == [j \in 1..(Len(s) - 1) |-> IF j < i THEN s[j] ELSE s[j + 1]]

\* the orders in which the elements of s can come
RECURSIVE Perms(_)
Perms(s) ==
    IF s = <<>> THEN {<<>>}
    ELSE UNION {{<<s[i]>> \o t : t \in Perms(Without(s, i))} : i \in DOMAIN s}

BagOfSeq(s) == [e \in Range(s) |-> Cardinality({i \in DOMAIN s : s[i] = e})]

\* locals, by the names the source gives them
NoLocals ==
    [title      |-> None,    \* save_to_database: the article's title
     new_id     |-> None,    \* save_to_database
     titles     |-> <<>>,    \* embed_and_store_in_milvus: rows (id, title)
     ids        |-> <<>>,    \* embed_and_store_in_milvus
     embeddings |-> <<>>,    \* embed_and_store_in_milvus
     query      |-> None,    \* search_articles
     top_k      |-> None,    \* search_articles
     title_ids  |-> <<>>,    \* search_articles: the ids of the hits, by rank
     articles   |-> <<>>,    \* search_articles: the rows fetched
     selects    |-> 0,       \* search_articles: the SELECTs sent to MySQL
     printed    |-> <<>>,    \* search_articles: the rows printed, in order
     result     |-> ""]      \* search_articles: how the call ended

\* a rebuild that loaded the collection, and the one before it
NoRebuild ==
    [run        |-> None,        \* the run that rebuilt
     snap       |-> NoSnapshot,  \* the ids its SELECT id, title returned
     ents       |-> EmptyBag,    \* the collection as its load left it
     prior_snap |-> NoSnapshot,  \* snap of the rebuild before it
     prior_ents |-> EmptyBag]    \* ents of the rebuild before it

NoHistory ==
    [snap   |-> NoSnapshot,  \* the ids SELECT id, title returned to this run
     failed |-> FALSE,       \* a step of this run's rebuild raised
     ops    |-> <<>>]        \* the Milvus operations issued, in order

\* ------------------------------------------------------ the two stores
JournalIds == {journals[i].id : i \in DOMAIN journals}

\* SELECT MAX(id) FROM journals
MaxId == IF journals = <<>> THEN None ELSE Max(JournalIds)

\* new_id = 1 if max_id is None else max_id + 1
NewIdSkips(max_id) == IF max_id = None THEN 1 ELSE max_id + 2
NewId(max_id) == IF max_id = None THEN 1 ELSE max_id + 1

\* model.encode(text).tolist(): a deterministic map from text to a vector
Embed(text) == <<text, (text * text) % 3>>

\* the L2 metric (squared) between two vectors
Dist(u, v) == (u[1] - v[1]) * (u[1] - v[1]) + (u[2] - v[2]) * (u[2] - v[2])

Absent == [exists |-> FALSE, ents |-> EmptyBag, indexed |-> FALSE, loaded |-> FALSE]

\* utility.drop_collection("journal_titles")
DropSkipped == coll
Dropped == Absent

\* Collection("journal_titles", schema=schema): a fresh collection, or the
\* existing one of that name when there is one
Created == IF coll.exists THEN coll
           ELSE [exists |-> TRUE, ents |-> EmptyBag, indexed |-> FALSE, loaded |-> FALSE]

IdsOf(b) == {e[1] : e \in BagToSet(b)}

CollIds == IdsOf(coll.ents)

\* ---------------------------------------------------------- bookkeeping
Goto(p, l) == pc' = [pc EXCEPT ![p] = l]

\* an exception nothing catches unwinds the run
Raise(p, e) ==
    /\ pc' = [pc EXCEPT ![p] = "crashed"]
    /\ exc' = [exc EXCEPT ![p] = e]
    /\ loc' = [loc EXCEPT ![p] = NoLocals]

\* ---------------------------------------------------------------- Init
\* both stores empty, no run of the script started
Fresh ==
    /\ journals = <<>>
    /\ coll = Absent
    /\ pc = [p \in Procs |-> "idle"]
    /\ exc = [p \in Procs |-> ""]
    /\ loc = [p \in Procs |-> NoLocals]
    /\ hist = [p \in Procs |-> NoHistory]
    /\ last = NoRebuild
    /\ deleted = FALSE

\* ------------------------------------------------- the script starts
Running(q) == pc[q] \notin {"idle", "done"}

\* from the return of has_collection to the return of collection.load()
Rebuilding(q) == pc[q] \in {"r_drop", "r_create", "e_select", "e_loop",
                            "i_index", "i_load"}

\* if __name__ == "__main__":
Start(p) ==
    /\ pc[p] = "idle"
    /\ sched = "serial" => \A q \in Procs : ~Running(q)
    /\ Goto(p, "ingest")
    /\ UNCHANGED <<journals, coll, exc, loc, hist, last, env>>

\* get_latest_research_urls: one more article link is found, and its
\* fields are handed to save_to_database
CallSave(p) ==
    /\ pc[p] = "ingest"
    /\ MaxId < MaxRows
    /\ \E t \in Titles : loc' = [loc EXCEPT ![p].title = t]
    /\ Goto(p, "s_max")
    /\ UNCHANGED <<journals, coll, exc, hist, last, env>>

\* the loop over the article links ends; the rebuild begins
EndIngest(p) ==
    /\ pc[p] = "ingest"
    /\ Goto(p, "r_has")
    /\ UNCHANGED <<journals, coll, exc, loc, hist, last, env>>

\* --------------------------------------------------- save_to_database
\* connection = mysql.connector.connect(...), SELECT MAX(id) FROM journals,
\* then new_id.  When connect raises mysql.connector.Error the except clause
\* prints it and the finally clause reads the unbound cursor; when the query
\* raises, the error is caught and the call returns
SaveSelectMax(p) ==
    /\ pc[p] = "s_max"
    /\ \/ /\ loc' = [loc EXCEPT ![p].new_id = NewId(MaxId)]
          /\ Goto(p, "s_insert")
          /\ UNCHANGED exc
       \/ /\ loc' = [loc EXCEPT ![p] = NoLocals]
          /\ Goto(p, "ingest")
          /\ UNCHANGED exc
       \/ Raise(p, "UnboundLocalError")
    /\ UNCHANGED <<journals, coll, hist, last, env>>

\* the table once the INSERT of (new_id, title, ...) is committed
Inserted(p) == Append(journals, [id |-> loc[p].new_id, title |-> loc[p].title])

\* INSERT INTO journals ... and connection.commit(); an id the table holds
\* already, like any other mysql.connector.Error, is caught and the article
\* is not stored; then the finally clause and the return
SaveInsert(p) ==
    /\ pc[p] = "s_insert"
    /\ \/ /\ loc[p].new_id \notin JournalIds
          /\ journals' = Inserted(p)
       \/ UNCHANGED journals
    /\ loc' = [loc EXCEPT ![p] = NoLocals]
    /\ Goto(p, "ingest")
    /\ UNCHANGED <<coll, exc, hist, last, env>>

\* ----------------------------------------- recreate_milvus_collection
\* if utility.has_collection("journal_titles"):
HasCollection(p) ==
    /\ pc[p] = "r_has"
    /\ sched = "one rebuild" => \A q \in Procs : ~Rebuilding(q)
    /\ Goto(p, IF coll.exists THEN "r_drop" ELSE "r_create")
    /\ UNCHANGED <<journals, coll, exc, loc, hist, last, env>>

\* utility.drop_collection("journal_titles")
DropCollection(p) ==
    /\ pc[p] = "r_drop"
    /\ coll' = Dropped
    /\ Goto(p, "r_create")
    /\ UNCHANGED <<journals, exc, loc, hist, last, env>>

\* collection = Collection("journal_titles", schema=schema)
CreateCollection(p) ==
    /\ pc[p] = "r_create"
    /\ coll' = Created
    /\ hist' = [hist EXCEPT ![p].ops = Append(@, "recreate")]
    /\ Goto(p, "e_select")
    /\ UNCHANGED <<journals, exc, loc, last, env>>

\* ------------------------------------------ embed_and_store_in_milvus
\* the rows of SELECT id, title FROM journals, in the table's order
TitleRows == [i \in DOMAIN journals |-> <<journals[i].id, journals[i].title>>]

\* connect, cursor.execute("SELECT id, title FROM journals") and
\* titles = cursor.fetchall(), the rows in any order.  When connect raises
\* the finally clause reads the unbound cursor; when the query raises, the
\* error is caught and the call returns to the script, which goes on
EmbedSelect(p) ==
    /\ pc[p] = "e_select"
    /\ \/ /\ \E rows \in Perms(TitleRows) : loc' = [loc EXCEPT ![p].titles = rows]
          /\ hist' = [hist EXCEPT ![p].snap = JournalIds]
          /\ Goto(p, "e_loop")
          /\ UNCHANGED exc
       \/ /\ hist' = [hist EXCEPT ![p].failed = TRUE]
          /\ Goto(p, "i_index")
          /\ UNCHANGED <<exc, loc>>
       \/ /\ Raise(p, "UnboundLocalError")
          /\ hist' = [hist EXCEPT ![p].failed = TRUE]
    /\ UNCHANGED <<journals, coll, last, env>>

\* embedding = model.encode(title).tolist(); embeddings.append(embedding)
EmbeddingsPrepended(p, title) == <<Embed(title)>> \o loc[p].embeddings
EmbeddingsAppended(p, title) == Append(loc[p].embeddings, Embed(title))

\* one iteration of: for (id, title) in titles
EmbedLoop(p) ==
    /\ pc[p] = "e_loop"
    /\ Len(loc[p].ids) < Len(loc[p].titles)
    /\ LET row == loc[p].titles[Len(loc[p].ids) + 1] IN
        loc' = [loc EXCEPT ![p].embeddings = EmbeddingsAppended(p, row[2]),
                           ![p].ids = Append(@, row[1])]
    /\ UNCHANGED <<journals, coll, pc, exc, hist, last, env>>

\* data_to_insert = [ids, embeddings]: entity i is (ids[i], embeddings[i])
DataToInsertShifted(p) ==
    [i \in DOMAIN loc[p].ids |-> <<loc[p].ids[i] + 1, loc[p].embeddings[i]>>]
DataToInsert(p) ==
    [i \in DOMAIN loc[p].ids |-> <<loc[p].ids[i], loc[p].embeddings[i]>>]

\* the collection after collection.insert(data_to_insert)
AfterInsertButFirst(p) ==
    [coll EXCEPT !.ents = @ (+) BagOfSeq(SubSeq(DataToInsert(p), 2,
                                                Len(DataToInsert(p))))]
AfterInsert(p) == [coll EXCEPT !.ents = @ (+) BagOfSeq(DataToInsert(p))]

\* collection.insert(data_to_insert) once the loop is over, then the
\* finally clause and the return.  Milvus may refuse the insert, and does
\* when the collection is gone: that exception is no mysql.connector.Error
EmbedInsert(p) ==
    /\ pc[p] = "e_loop"
    /\ Len(loc[p].ids) = Len(loc[p].titles)
    /\ \/ /\ coll.exists
          /\ coll' = AfterInsert(p)
          /\ hist' = [hist EXCEPT ![p].ops = Append(@, "insert")]
          /\ loc' = [loc EXCEPT ![p] = NoLocals]
          /\ Goto(p, "i_index")
          /\ UNCHANGED exc
       \/ /\ Raise(p, "MilvusException")
          /\ hist' = [hist EXCEPT ![p].failed = TRUE]
          /\ UNCHANGED coll
    /\ UNCHANGED <<journals, last, env>>

\* ------------------------------------------------------- create_index
\* collection.create_index(field_name="title_embedding", ...)
CreateIndex(p) ==
    /\ pc[p] = "i_index"
    /\ \/ /\ coll.exists
          /\ coll' = [coll EXCEPT !.indexed = TRUE]
          /\ hist' = [hist EXCEPT ![p].ops = Append(@, "index")]
          /\ Goto(p, "i_load")
          /\ UNCHANGED <<exc, loc>>
       \/ /\ Raise(p, "MilvusException")
          /\ hist' = [hist EXCEPT ![p].failed = TRUE]
          /\ UNCHANGED coll
    /\ UNCHANGED <<journals, last, env>>

\* collection.load(): the collection becomes queryable
Load(p) ==
    /\ pc[p] = "i_load"
    /\ \/ /\ coll.exists /\ coll.indexed
          /\ coll' = [coll EXCEPT !.loaded = TRUE]
          /\ hist' = [hist EXCEPT ![p].ops = Append(@, "load")]
          /\ last' = [run |-> p, snap |-> hist[p].snap, ents |-> coll.ents,
                      prior_snap |-> last.snap, prior_ents |-> last.ents]
          /\ Goto(p, "q_search")
          /\ UNCHANGED <<exc, loc>>
       \/ /\ Raise(p, "MilvusException")
          /\ hist' = [hist EXCEPT ![p].failed = TRUE]
          /\ UNCHANGED <<coll, last>>
    /\ UNCHANGED <<journals, env>>

\* ---------------------------------------------------- search_articles
\* the entities of a collection, each copy of an entity apart
Copies(b) == {c \in BagToSet(b) \X (1..BagCardinality(b)) : c[2] <= CopiesIn(c[1], b)}

\* the rankings of m entities of C by ascending L2 distance to the query
\* vector qv, entities at equal distance in any order
RECURSIVE Ranked(_, _, _)
Ranked(C, qv, m) ==
    IF m = 0 \/ C = {} THEN {<<>>}
    ELSE LET nearest == {c \in C : \A o \in C : Dist(c[1][2], qv) <= Dist(o[1][2], qv)}
         IN UNION {{<<c>> \o r : r \in Ranked(C \ {c}, qv, m - 1)} : c \in nearest}

\* collection.search(data=[qv], ..., limit=k), then
\* title_ids = [hit.id for hit in results[0]] if results[0] else []
HitsUnlimited(b, qv, k) ==
    {[i \in DOMAIN s |-> s[i][1][1]] : s \in Ranked(Copies(b), qv, BagCardinality(b))}
Hits(b, qv, k) ==
    {[i \in DOMAIN s |-> s[i][1][1]] : s \in Ranked(Copies(b), qv, k)}

\* the collection after collection.search(...): as it was
AfterSearchReleased == [coll EXCEPT !.loaded = FALSE]
AfterSearch == coll

\* if title_ids: ... else: print("No matching articles found.")
IfTitleIdsAlways(h) == "q_select"
IfTitleIds(h) == IF h = <<>> THEN "returned" ELSE "q_select"

\* query_embedding, collection.search and title_ids; with no hit the call
\* prints "No matching articles found." and returns.  Milvus raises when
\* the collection is missing or not loaded
SearchMilvus(p) ==
    /\ pc[p] = "q_search"
    /\ \/ /\ coll.exists /\ coll.loaded
          /\ \E h \in Hits(coll.ents, Embed(call.query), call.top_k) :
                /\ loc' = [loc EXCEPT ![p].query = call.query,
                                      ![p].top_k = call.top_k,
                                      ![p].title_ids = h,
                                      ![p].result = IF h = <<>> THEN "no match" ELSE ""]
                /\ Goto(p, IfTitleIds(h))
          /\ coll' = AfterSearch
          /\ hist' = [hist EXCEPT ![p].ops = Append(@, "search")]
          /\ UNCHANGED exc
       \/ /\ ~(coll.exists /\ coll.loaded)
          /\ Raise(p, "MilvusException")
          /\ hist' = [hist EXCEPT ![p].ops = Append(@, "search")]
          /\ UNCHANGED coll
    /\ UNCHANGED <<journals, last, env>>

\* the rows of SELECT title, abstract FROM journals WHERE id IN (wanted), in
\* the table's order
ArticleRowsAllOrNone(wanted) ==
    IF Range(wanted) \subseteq JournalIds
    THEN LET keep(r) == r.id \in Range(wanted)
             rows == SelectSeq(journals, keep)
         IN [i \in DOMAIN rows |-> rows[i].title]
    ELSE <<>>
ArticleRows(wanted) ==
    LET keep(r) == r.id \in Range(wanted)
        rows == SelectSeq(journals, keep)
    IN [i \in DOMAIN rows |-> rows[i].title]

\* for article in articles: print(...): every fetched row, in fetched order
Printed(fetched) == fetched

\* connect, the SELECT ... WHERE id IN (...) with fetchall, the rows in any
\* order, and the loop that prints them.  When connect raises the finally
\* clause reads the unbound cursor; when the query raises, the error is
\* caught, nothing is printed and the call returns
SearchSelect(p) ==
    /\ pc[p] = "q_select"
    /\ \/ /\ \E rows \in Perms(ArticleRows(loc[p].title_ids)) :
                loc' = [loc EXCEPT ![p].articles = rows,
                                   ![p].selects = @ + 1,
                                   ![p].printed = Printed(rows),
                                   ![p].result = "rows"]
          /\ Goto(p, "returned")
          /\ UNCHANGED exc
       \/ /\ loc' = [loc EXCEPT ![p].selects = @ + 1,
                              ![p].result = "mysql error"]
          /\ Goto(p, "returned")
          /\ UNCHANGED exc
       \/ Raise(p, "UnboundLocalError")
    /\ UNCHANGED <<journals, coll, hist, last, env>>

\* ------------------------------------------------------ the script ends
\* the interpreter exits, after search_articles returned or on an uncaught
\* exception
Exit(p) ==
    /\ pc[p] \in {"returned", "crashed"}
    /\ Goto(p, "done")
    /\ exc' = [exc EXCEPT ![p] = ""]
    /\ loc' = [loc EXCEPT ![p] = NoLocals]
    /\ hist' = [hist EXCEPT ![p] = NoHistory]
    /\ UNCHANGED <<journals, coll, last, env>>

\* -------------------------------------------------------- environment
\* another client of the database deletes a row of journals, once
DeleteRow ==
    /\ ~deleted
    /\ deleted' = TRUE
    /\ \E i \in DOMAIN journals : journals' = Without(journals, i)
    /\ UNCHANGED <<coll, pc, exc, loc, hist, last, sched, call>>

\* ------------------------------------------------------ specifications
Next == \E p \in Procs :
    \/ Start(p)
    \/ CallSave(p)
    \/ EndIngest(p)
    \/ SaveSelectMax(p)
    \/ SaveInsert(p)
    \/ HasCollection(p)
    \/ DropCollection(p)
    \/ CreateCollection(p)
    \/ EmbedSelect(p)
    \/ EmbedLoop(p)
    \/ EmbedInsert(p)
    \/ CreateIndex(p)
    \/ Load(p)
    \/ SearchMilvus(p)
    \/ SearchSelect(p)
    \/ Exit(p)

NextStale == Next \/ DeleteRow

\* the runs follow one another, as one operator starts them, and
\* search_articles is called with any query and top_k
Init == Fresh /\ sched = "serial" /\ call \in Calls
Spec == Init /\ [][Next]_vars

\* runs of the script as written overlap, but a rebuild begins only when no
\* other is under way
InitLocked == Fresh /\ sched = "one rebuild" /\ call = ScriptCall
SpecLocked == InitLocked /\ [][Next]_vars

\* runs of the script as written overlap freely
InitConc == Fresh /\ sched = "free" /\ call = ScriptCall
SpecConc == InitConc /\ [][Next]_vars

\* runs of the script as written follow one another, while another client
\* deletes a row of journals
InitStale == Fresh /\ sched = "serial" /\ call = ScriptCall
SpecStale == InitStale /\ [][NextStale]_vars

\* ================================================================ claims
\* the title (with its abstract) of the row of journals whose id is i
TitleOf(i) == (CHOOSE r \in Range(journals) : r.id = i).title

\* the rows of the hits that have a row, in the rank order of the hits
InRankOrder(hits) ==
    LET has(i) == i \in JournalIds
        found == SelectSeq(hits, has)
    IN [i \in DOMAIN found |-> TitleOf(found[i])]

Count(s, x) == Cardinality({i \in DOMAIN s : s[i] = x})

IsPrefix(s, t) == Len(s) <= Len(t) /\ \A i \in DOMAIN s : s[i] = t[i]

\* C1: the rows search_articles prints are in the rank order of the ids the
\* vector search returned, whatever order the relational fetch returns them in.
C1_PrintedInRankOrder ==
    \A p \in Procs :
        pc[p] = "returned" /\ loc[p].result = "rows"
            => loc[p].printed = InRankOrder(loc[p].title_ids)

\* C2: while the collection a rebuild loaded is in place, the ids it holds are
\* exactly the ids that rebuild's SELECT id, title returned.
C2_SnapshotConsistency ==
    coll.loaded /\ last.snap # NoSnapshot => CollIds = last.snap

\* a second rebuild replaced the ids of an earlier one by those of its own read
C2_Witness ==
    /\ coll.loaded
    /\ last.snap \notin {NoSnapshot, {}}
    /\ last.prior_snap \notin {NoSnapshot, {}, last.snap}
    /\ CollIds = last.snap

\* C3: a run whose rebuild had a failing step, the table holding rows, neither
\* leaves the collection loaded with an id set that is neither the previous
\* snapshot nor the table's, nor goes on to search as if the rebuild had
\* completed.
C3_FailedRebuildNotServed ==
    \A p \in Procs :
        hist[p].failed /\ journals # <<>> =>
            /\ pc[p] \notin {"q_search", "q_select", "returned"}
            /\ ~(coll.loaded /\ last.run = p
                   /\ CollIds \notin {last.prior_snap, JournalIds})

\* C4: every id held in the vector collection is the id of a row of journals.
C4_IndexedIdsExist == CollIds \subseteq JournalIds

\* the collection holds ids while the table holds a row it does not index
C4_Witness == CollIds # {} /\ CollIds # JournalIds /\ coll.loaded

\* C5: a fetch for hits of which some have no row prints exactly the rows of
\* the hits that have one, each once.
C5_StaleHitsDropped ==
    [][\A p \in Procs :
          pc[p] = "q_select" /\ pc'[p] = "returned" /\ loc'[p].result = "rows"
            => \A t \in Titles :
                  Count(loc'[p].printed, t)
                    = Cardinality({i \in Range(loc[p].title_ids) \cap JournalIds :
                                      TitleOf(i) = t})]_vars

\* search_articles returned after printing the rows of some hits, not of all
C5_Witness ==
    \E p \in Procs :
        /\ pc[p] = "returned" /\ loc[p].result = "rows"
        /\ loc[p].printed # <<>>
        /\ Len(loc[p].printed) < Len(loc[p].title_ids)

\* C6: a run issues its Milvus operations in the order recreate, one insert,
\* index build, load, and searches only after the load, on every path.
C6_ProtocolOrder ==
    \A p \in Procs :
        IsPrefix(hist[p].ops, <<"recreate", "insert", "index", "load", "search">>)

\* C7: a rebuild that read the same rows as the rebuild before it leaves the
\* collection as that one left it, each id held exactly once.
C7_IdempotentRebuild ==
    last.snap # NoSnapshot /\ last.prior_snap = last.snap =>
        /\ last.ents = last.prior_ents
        /\ \A e \in BagToSet(last.ents) : CopiesIn(e, last.ents) = 1
        /\ Cardinality(BagToSet(last.ents)) = Cardinality(last.snap)

\* two rebuilds in a row read the same, non-empty, set of rows
C7_Witness ==
    /\ last.snap \notin {NoSnapshot, {}}
    /\ last.prior_snap = last.snap
    /\ coll.loaded

\* C8: saves made one after another store their articles under 1, 2, 3, ...:
\* 1 in the empty table, the maximum id plus one after that.
C8_SequentialIds == \A i \in DOMAIN journals : journals[i].id = i

\* two articles have been saved
C8_Witness == Len(journals) >= 2 /\ \E p \in Procs : pc[p] = "ingest"

\* the collection holds one complete snapshot: what the rebuild that loaded
\* it read, each id once
Complete ==
    /\ last.snap # NoSnapshot
    /\ coll.ents = last.ents
    /\ IdsOf(coll.ents) = last.snap
    /\ \A e \in BagToSet(coll.ents) : CopiesIn(e, coll.ents) = 1

\* C9: a search that returns results after another run rebuilt the collection
\* the searching run had built was computed from one complete snapshot of a
\* rebuild, never from an empty or partly populated collection.
C9_SearchSeesSnapshot ==
    [][\A p \in Procs :
          /\ pc[p] = "q_search" /\ pc'[p] \in {"q_select", "returned"}
          /\ ~hist[p].failed /\ last.run # p
          /\ last.prior_snap \notin {NoSnapshot, {}}
          => Complete]_vars

\* C10: no two runs are between recreate and load at once.
C10_RebuildsExclusive ==
    \A p, q \in Procs : p # q => ~(Rebuilding(p) /\ Rebuilding(q))

\* C11: a call of search_articles whose vector search returned no hit returns
\* with the empty result: it raises nothing and sends no SELECT to MySQL.
C11_NoHitsNoQuery ==
    \A p \in Procs :
        loc[p].query # None /\ loc[p].title_ids = <<>> =>
            /\ pc[p] = "returned" /\ exc[p] = ""
            /\ loc[p].result = "no match"
            /\ loc[p].selects = 0 /\ loc[p].printed = <<>>

\* search_articles returned from a vector search without a hit
C11_Witness ==
    \E p \in Procs :
        /\ pc[p] = "returned" /\ coll.loaded
        /\ loc[p].query # None /\ loc[p].title_ids = <<>>

\* C12: no step of a call of search_articles, whatever its outcome, changes
\* the rows of journals or the entities and the lifecycle state of the
\* collection.
C12_SearchReadOnly ==
    [][\A p \in Procs :
          pc[p] \in {"q_search", "q_select"} /\ pc'[p] # pc[p]
            => journals' = journals /\ coll' = coll]_vars

\* search_articles returned after its SELECT raised, both stores populated
C12_Witness ==
    \E p \in Procs :
        /\ pc[p] = "returned" /\ loc[p].result = "mysql error"
        /\ journals # <<>> /\ coll.loaded /\ CollIds # {}

\* C13: a rebuild whose fetch of the (id, title) rows fails leaves the
\* collection the previous rebuild loaded as that rebuild left it, still
\* loaded: nothing is dropped or recreated before the rows are fetched.
C13_FetchBeforeDrop ==
    [][\A p \in Procs :
          /\ pc[p] = "e_select" /\ hist'[p].failed
          /\ last.snap \notin {NoSnapshot, {}}
          => coll'.loaded /\ coll'.ents = last.ents]_vars

\* C14: calls of save_to_database that overlap are never assigned the same
\* id: a call about to INSERT holds an id that no row has and that no other
\* call about to INSERT holds, so that every article is stored.
C14_ConcurrentSavesDistinct ==
    \A p \in Procs :
        pc[p] = "s_insert" =>
            /\ loc[p].new_id \notin JournalIds
            /\ \A q \in Procs \ {p} :
                  pc[q] = "s_insert" => loc[q].new_id # loc[p].new_id

\* C15: search_articles prints at most top_k rows, and the rows it prints
\* are rows of ids the vector search returned, at most one for each such id.
C15_AtMostTopKRows ==
    \A p \in Procs :
        pc[p] = "returned" /\ loc[p].result = "rows" =>
            /\ Len(loc[p].printed) <= loc[p].top_k
            /\ Len(loc[p].title_ids) <= loc[p].top_k
            /\ \A t \in Titles :
                  Count(loc[p].printed, t)
                    <= Cardinality({i \in Range(loc[p].title_ids) \cap JournalIds :
                                       TitleOf(i) = t})

\* a call with top_k = 1 printed one row while the collection held more
C15_Witness ==
    \E p \in Procs :
        /\ pc[p] = "returned" /\ loc[p].result = "rows"
        /\ loc[p].top_k = 1 /\ Len(loc[p].printed) = 1
        /\ Cardinality(CollIds) > 1

\* C16: after every iteration of the loop of embed_and_store_in_milvus, ids
\* and embeddings have the same length and embeddings[i] is the embedding of
\* the title fetched with ids[i]; every entity of the collection pairs an id
\* with the embedding of the title of the row of that id.
C16_IdsPairedWithEmbeddings ==
    /\ \A p \in Procs :
          pc[p] = "e_loop" =>
            /\ Len(loc[p].ids) = Len(loc[p].embeddings)
            /\ Len(loc[p].ids) <= Len(loc[p].titles)
            /\ \A i \in DOMAIN loc[p].ids :
                  /\ loc[p].ids[i] = loc[p].titles[i][1]
                  /\ loc[p].embeddings[i] = Embed(loc[p].titles[i][2])
    /\ \A e \in BagToSet(coll.ents) : e[2] = Embed(TitleOf(e[1]))

\* the loop has handled two rows of different titles
C16_Witness ==
    \E p \in Procs :
        /\ pc[p] = "e_loop" /\ Len(loc[p].ids) = 2
        /\ loc[p].titles[1][2] # loc[p].titles[2][2]

\* C17: a mysql.connector.Error raised inside save_to_database,
\* embed_and_store_in_milvus or search_articles, by connect as by a query,
\* never leaves the function as an exception: no run is ended by an exception
\* of the finally clause of one of them.
C17_MysqlErrorsCaught ==
    \A p \in Procs : exc[p] # "UnboundLocalError"
====
